---- MODULE Spec2Model ----
(***************************************************************************)
(* A model of the `ephemeral` crate: the in-memory Project / Dir / File    *)
(* values (src/src/lib.rs), the GenericBuilder and RustBuilder             *)
(* (src/src/builder.rs), the Cargo manifest and its TOML rendering         *)
(* (src/src/rust_tools.rs), and the filesystem they act on.                *)
(*                                                                         *)
(* The state machine is a caller (a test) driving the public API: it       *)
(* constructs values, chains the accumulation calls, builds and clears.    *)
(* The values are Clone, so the caller may keep a copy of a value that a   *)
(* by-value call consumes (`project.clone().build()` in the crate's own    *)
(* tests); the variables hold the caller's copies.                         *)
(***************************************************************************)
EXTENDS Integers, Sequences, FiniteSets, TLC

\* ------------------------------------------------------------------ bounds

\* Dirs the caller passes to add_dir in one scenario.
MaxDirs == 2

\* File values (add_file calls and attached manifests) in one scenario.
MaxFiles == 2

\* ------------------------------------------------------------------- paths

\* A PathBuf: whether it is absolute, and its components.
Rel(comps) == [abs |-> FALSE, comps |-> comps]

Abs(comps) == [abs |-> TRUE, comps |-> comps]

\* Path::is_relative
is_relative(path) == ~path.abs

\* Path::join: an absolute argument replaces the receiver.
join(self, path) ==
    IF path.abs THEN path
    ELSE [abs |-> self.abs, comps |-> self.comps \o path.comps]

\* The process's working directory, as a location from the filesystem root.
Cwd == <<"w">>

\* The location a path names: a relative path is taken from the working
\* directory.
Resolve(path) == IF path.abs THEN path.comps ELSE Cwd \o path.comps

Parent(n) == SubSeq(n, 1, Len(n) - 1)

\* n is m or lies beneath m.
Within(n, m) == Len(m) <= Len(n) /\ SubSeq(n, 1, Len(m)) = m

\* The paths the caller chooses from.
RootPaths == { Rel(<<"tmp">>) }

DirPaths == { Rel(<<"tmp">>), Rel(<<"tmp", "foo">>), Rel(<<"out">>) }

\* The (path, contents) arguments of add_file the caller chooses from: a
\* relative path with two contents, and an absolute path.
FileArgs ==
    { [path |-> Rel(<<"foo">>), contents |-> <<101>>],
      [path |-> Rel(<<"foo">>), contents |-> <<102>>],
      [path |-> Abs(<<"x">>), contents |-> <<101>>] }

\* -------------------------------------------------------------- filesystem

\* A filesystem is a function from the locations that exist to their
\* entries.
DirEntry == [kind |-> "dir", contents |-> <<>>]

FileEntry(contents) == [kind |-> "file", contents |-> contents]

Exists(f, n) == n \in DOMAIN f

IsDir(f, n) == n \in DOMAIN f /\ f[n].kind = "dir"

IsFile(f, n) == n \in DOMAIN f /\ f[n].kind = "file"

Put(f, n, e) == [m \in DOMAIN f \cup {n} |-> IF m = n THEN e ELSE f[m]]

\* The environment before the scenario: the working directory exists; the
\* location of the project root is free, or is taken by a plain file; the
\* device takes writes, or is full and fails every write of data.
CleanDisk == (<<>> :> DirEntry) @@ (Cwd :> DirEntry)

TakenDisk == Put(CleanDisk, Cwd \o <<"tmp">>, FileEntry(<<100>>))

Environments ==
    { [disk |-> CleanDisk, device |-> "ok"],
      [disk |-> TakenDisk, device |-> "ok"],
      [disk |-> CleanDisk, device |-> "full"] }

\* A mkdir_p that fails on a directory that is already there.
mkdir_p_exclusive(f, n) ==
    IF n \in DOMAIN f \/ \E k \in 0..Len(n) : IsFile(f, SubSeq(n, 1, k))
    THEN [ok |-> FALSE, fs |-> f]
    ELSE [ok |-> TRUE,
          fs |-> [m \in DOMAIN f \cup { SubSeq(n, 1, k) : k \in 0..Len(n) } |->
                     IF m \in DOMAIN f THEN f[m] ELSE DirEntry]]

\* A mkdir_p with std::fs::create_dir, which creates the one directory and
\* fails when it exists or its parent is missing.
mkdir_p_single(f, n) ==
    IF n \in DOMAIN f \/ n = <<>> \/ ~IsDir(f, Parent(n))
    THEN [ok |-> FALSE, fs |-> f]
    ELSE [ok |-> TRUE, fs |-> Put(f, n, DirEntry)]

\* FilePath::mkdir_p = std::fs::create_dir_all: creates the directory and
\* every missing ancestor, succeeds on an existing directory, and fails,
\* creating nothing, when a component exists and is not a directory.
RECURSIVE mkdir_p(_, _)
mkdir_p(f, n) ==
    IF n \in DOMAIN f THEN [ok |-> f[n].kind = "dir", fs |-> f]
    ELSE IF n = <<>> THEN [ok |-> FALSE, fs |-> f]
    ELSE LET r == mkdir_p(f, Parent(n))
         IN  IF r.ok THEN [ok |-> TRUE, fs |-> Put(r.fs, n, DirEntry)] ELSE r

\* A create that leaves a file that is already there as it is.
create_write_keep(f, n, contents, dev) ==
    IF n = <<>> \/ ~IsDir(f, Parent(n)) \/ IsDir(f, n)
    THEN [ok |-> FALSE, fs |-> f]
    ELSE IF IsFile(f, n) THEN [ok |-> TRUE, fs |-> f]
    ELSE IF dev = "full" /\ contents # <<>>
    THEN [ok |-> FALSE, fs |-> Put(f, n, FileEntry(<<>>))]
    ELSE [ok |-> TRUE, fs |-> Put(f, n, FileEntry(contents))]

\* A create that opens without truncating and appends to what is there.
create_write_append(f, n, contents, dev) ==
    IF n = <<>> \/ ~IsDir(f, Parent(n)) \/ IsDir(f, n)
    THEN [ok |-> FALSE, fs |-> f]
    ELSE IF dev = "full" /\ contents # <<>>
    THEN [ok |-> FALSE, fs |-> Put(f, n, FileEntry(<<>>))]
    ELSE [ok |-> TRUE,
          fs |-> Put(f, n, FileEntry((IF IsFile(f, n) THEN f[n].contents ELSE <<>>)
                                        \o contents))]

\* FsFile::create(path)?.write_all(contents)?: create truncates or creates
\* the file and fails when the parent is no directory or the path is a
\* directory; write_all then writes the whole buffer, unless the device is
\* full, which leaves the truncated file behind.
create_write(f, n, contents, dev) ==
    IF n = <<>> \/ ~IsDir(f, Parent(n)) \/ IsDir(f, n)
    THEN [ok |-> FALSE, fs |-> f]
    ELSE IF dev = "full" /\ contents # <<>> THEN [ok |-> FALSE, fs |-> Put(f, n, FileEntry(<<>>))]
    ELSE [ok |-> TRUE, fs |-> Put(f, n, FileEntry(contents))]

\* A removal of the directory alone, which leaves what lies beneath it.
remove_dir_all_shallow(f, n) ==
    IF ~IsDir(f, n) THEN [ok |-> FALSE, fs |-> f]
    ELSE [ok |-> TRUE, fs |-> [m \in DOMAIN f \ {n} |-> f[m]]]

\* std::fs::remove_dir_all: removes the directory and everything beneath it;
\* fails when the path does not exist or is not a directory.
remove_dir_all(f, n) ==
    IF ~IsDir(f, n) THEN [ok |-> FALSE, fs |-> f]
    ELSE [ok |-> TRUE,
          fs |-> [m \in {x \in DOMAIN f : ~Within(x, n)} |-> f[m]]]

\* ---------------------------------------------------------------- manifest

\* String::into_bytes for the strings of the model (ASCII).
Utf8(s) ==
    CASE s = "" -> <<>>
      [] s = "foo" -> <<102, 111, 111>>
      [] s = "foo <foo@bar.com>" ->
            <<102, 111, 111, 32, 60, 102, 111, 111, 64, 98, 97, 114, 46, 99, 111, 109, 62>>
      [] s = "semver" -> <<115, 101, 109, 118, 101, 114>>
      [] s = "2015" -> <<50, 48, 49, 53>>
      [] s = "2018" -> <<50, 48, 49, 56>>

\* enum Edition
Editions == { "Edition2015", "Edition2018" }

\* impl Serialize for Edition: the year as a string.
Edition_serialize(edition) ==
    IF edition = "Edition2015" THEN "2015" ELSE "2018"

\* impl From<Option<Edition>> for Edition
NoEdition == "None"

\* A From<Option<Edition>> that turns None into the oldest edition.
Edition_from_oldest(ed) == IF ed = NoEdition THEN "Edition2015" ELSE ed

Edition_from(ed) == IF ed = NoEdition THEN "Edition2018" ELSE ed

\* A semver::Version, and its Display.
Version(major, minor, patch) == [major |-> major, minor |-> minor, patch |-> patch]

RECURSIVE Decimal(_)
Decimal(n) ==
    IF n < 10 THEN <<48 + n>> ELSE Decimal(n \div 10) \o <<48 + (n % 10)>>

Version_display(v) ==
    Decimal(v.major) \o <<46>> \o Decimal(v.minor) \o <<46>> \o Decimal(v.patch)

\* Config::default
Config_default ==
    [name |-> "", version |-> Version(0, 0, 0), authors |-> <<>>,
     edition |-> "Edition2018"]

\* Option<HashMap<String, Version>>: whether it is Some, and its entries.
NoDependencies == [some |-> FALSE, entries |-> <<>>]

SomeDependencies(entries) == [some |-> TRUE, entries |-> entries]

\* Manifest::new
Manifest_new(package, dependencies) ==
    [package |-> package, dependencies |-> dependencies]

\* #[derive(Default)] for Manifest
Manifest_default == Manifest_new(Config_default, NoDependencies)

\* Config::try_from on a version string that parses.
Config_try_from(name, version, authors, edition) ==
    [name |-> name, version |-> version, authors |-> authors,
     edition |-> Edition_from(edition)]

\* Manifest::try_from
Manifest_try_from(name, version, authors, edition, dependencies) ==
    Manifest_new(Config_try_from(name, version, authors, edition), dependencies)

\* The pieces of the TOML text, as bytes.
\* "[package]\n"
TomlPackageHeader == <<91, 112, 97, 99, 107, 97, 103, 101, 93, 10>>

\* "name = "
TomlNameKey == <<110, 97, 109, 101, 32, 61, 32>>

\* "version = "
TomlVersionKey == <<118, 101, 114, 115, 105, 111, 110, 32, 61, 32>>

\* "authors = "
TomlAuthorsKey == <<97, 117, 116, 104, 111, 114, 115, 32, 61, 32>>

\* "edition = "
TomlEditionKey == <<101, 100, 105, 116, 105, 111, 110, 32, 61, 32>>

\* "\n[dependencies]\n"
TomlDependenciesHeader ==
    <<10, 91, 100, 101, 112, 101, 110, 100, 101, 110, 99, 105, 101, 115, 93, 10>>

\* " = "
TomlAssign == <<32, 61, 32>>

\* ", "
TomlComma == <<44, 32>>

TomlNewline == <<10>>

\* A basic string: the bytes between double quotes (the strings of the model
\* hold nothing that needs an escape).
TomlString(bytes) == <<34>> \o bytes \o <<34>>

RECURSIVE TomlArrayItems(_)
TomlArrayItems(strings) ==
    IF strings = <<>> THEN <<>>
    ELSE IF Len(strings) = 1 THEN TomlString(Utf8(strings[1]))
    ELSE TomlString(Utf8(strings[1])) \o TomlComma \o TomlArrayItems(Tail(strings))

TomlArray(strings) == <<91>> \o TomlArrayItems(strings) \o <<93>>

RECURSIVE TomlEntries(_)
TomlEntries(entries) ==
    IF entries = <<>> THEN <<>>
    ELSE Utf8(entries[1].name) \o TomlAssign
            \o TomlString(Version_display(entries[1].version)) \o TomlNewline
            \o TomlEntries(Tail(entries))

\* toml::to_string(&manifest) followed by into_bytes: the package table with
\* the fields of Config in declaration order, then the dependencies table,
\* which a None leaves out.
toml_to_string(manifest) ==
    TomlPackageHeader
        \o TomlNameKey \o TomlString(Utf8(manifest.package.name)) \o TomlNewline
        \o TomlVersionKey \o TomlString(Version_display(manifest.package.version))
        \o TomlNewline
        \o TomlAuthorsKey \o TomlArray(manifest.package.authors) \o TomlNewline
        \o TomlEditionKey
        \o TomlString(Utf8(Edition_serialize(manifest.package.edition)))
        \o TomlNewline
        \o (IF manifest.dependencies.some
            THEN TomlDependenciesHeader \o TomlEntries(manifest.dependencies.entries)
            ELSE <<>>)

\* The manifests the caller chooses from.
Manifests ==
    { Manifest_try_from("foo", Version(0, 1, 0), <<"foo <foo@bar.com>">>,
                        "Edition2015", NoDependencies),
      Manifest_try_from("foo", Version(0, 1, 0), <<"foo <foo@bar.com>">>,
                        NoEdition,
                        SomeDependencies(<<[name |-> "semver",
                                            version |-> Version(0, 9, 10)]>>)) }

\* ------------------------------------------------------------------ values

\* File::new
File_new(path, contents) == [path |-> path, contents |-> contents]

\* Dir::new
Dir_new(path) == [path |-> path, files |-> <<>>]

\* An add_file that puts the File in front of the earlier ones.
add_file_first(self, path, contents) ==
    LET full_path == IF is_relative(path) THEN join(self.path, path) ELSE path
    IN  [self EXCEPT !.files = <<File_new(full_path, contents)>> \o @]

\* An add_file that stores the path as given, without the join.
add_file_unjoined(self, path, contents) ==
    [self EXCEPT !.files = Append(@, File_new(path, contents))]

\* Dir::add_file
add_file(self, path, contents) ==
    LET full_path == IF is_relative(path) THEN join(self.path, path) ELSE path
    IN  [self EXCEPT !.files = Append(@, File_new(full_path, contents))]

\* Project::new
Project_new(path) == [path |-> path, dirs |-> <<Dir_new(path)>>]

\* An add_dir that puts the directory in front of the root.
Project_add_dir_front(self, directory) ==
    [self EXCEPT !.dirs = <<directory>> \o @]

\* Project::add_dir
Project_add_dir(self, directory) ==
    [self EXCEPT !.dirs = Append(@, directory)]

\* GenericBuilder::new (a GenericBuilder has no manifest field: the record
\* carries the default one, which nothing reads).
GenericBuilder_new(path) ==
    [variant |-> "GenericBuilder", path |-> path, project |-> Project_new(path),
     manifest |-> Manifest_default]

\* RustBuilder::new
RustBuilder_new(path) ==
    [variant |-> "RustBuilder", path |-> path, project |-> Project_new(path),
     manifest |-> Manifest_default]

\* Builder::project: a clone of the builder's project.
Builder_project(self) == self.project

\* Builder::add_dir: the push goes to the clone that project() returns,
\* which is dropped at the end of the statement; self is returned as it was.
Builder_add_dir(self, dir) ==
    LET pushed == [Builder_project(self) EXCEPT !.dirs = Append(@, dir)]
    IN  self

\* An add_cargo_toml that pushes the File onto a clone of the project, as
\* Builder::add_dir does.
add_cargo_toml_on_clone(self, manifest) ==
    [ok |-> TRUE, self |-> [self EXCEPT !.manifest = manifest]]

\* RustBuilder::add_cargo_toml: the result of the call, Ok(self) or the
\* serializer's error.  toml::to_string renders every Manifest of the model.
add_cargo_toml(self, manifest) ==
    LET stored == [self EXCEPT !.manifest = manifest]
        contents == toml_to_string(stored.manifest)
    IN  [ok |-> TRUE,
         self |-> [stored EXCEPT !.project.dirs[1].files =
                     Append(@, File_new(join(stored.path, Rel(<<"Cargo.toml">>)),
                                        contents))]]

\* An edition that serializes the manifest again into the File attached
\* last.
edition_reattach(self, e) ==
    LET stored == [self EXCEPT !.manifest.package.edition = e]
        files == stored.project.dirs[1].files
    IN  IF files = <<>> THEN stored
        ELSE [stored EXCEPT !.project.dirs[1].files[Len(files)].contents =
                 toml_to_string(stored.manifest)]

\* RustBuilder::edition
edition(self, e) == [self EXCEPT !.manifest.package.edition = e]

\* ------------------------------------------------------------------- state

VARIABLES
    fs,       \* the filesystem
    device,   \* the state of the device under it: "ok" or "full"
    dir,      \* the Dir the caller is assembling for add_dir: <<>> or <<Dir>>
    project,  \* the Project the caller holds: <<>> or <<Project>>
    builder,  \* the builder the caller holds: <<>> or <<builder>>
    added,    \* the Dirs the caller has passed to the builder's add_dir
    pc,       \* "idle", or "building" inside a build()
    pos,      \* inside build(): the Dir (i) and File (j, 0 = the Dir itself) next
    trace,    \* the steps the last build() has performed
    lastOp,   \* the last call made
    outcome,  \* its result: "none" (infallible), "Ok", "Err(io)", "Err(ser)"
              \* or "panic"
    before    \* the filesystem the last build() started on, when it was
              \* called right after a build() that succeeded: <<>> or <<fs>>

vars ==
    <<fs, device, dir, project, builder, added, pc, pos, trace, lastOp, outcome,
      before>>

RECURSIVE CountFiles(_)
CountFiles(dirs) ==
    IF dirs = <<>> THEN 0 ELSE Len(dirs[1].files) + CountFiles(Tail(dirs))

\* The Dirs of the value the caller holds.
HeldDirs ==
    IF builder # <<>> THEN Builder_project(builder[1]).dirs
    ELSE IF project # <<>> THEN project[1].dirs
    ELSE <<>>

\* The Dirs passed to add_dir, and the Files made, so far.
DirsPassed == Len(added) + (IF project # <<>> THEN Len(project[1].dirs) - 1 ELSE 0)

TotalFiles == CountFiles(added) + CountFiles(HeldDirs) + CountFiles(dir)

Chaining == pc = "idle" /\ dir = <<>>

\* The calls that build and clear.  "No function should be chained for
\* this, except for clear()" (Project::build): once the caller has built, it
\* only builds again or clears; "after teardown the Project value must not
\* be used again": once it has cleared, it only clears (a second copy).
BuildCalls == { "Project::build", "Builder::build", "RustBuilder::build" }

Accumulating == lastOp \notin BuildCalls \cup { "Project::clear" }

Init ==
    /\ \E env \in Environments : fs = env.disk /\ device = env.device
    /\ dir = <<>>
    /\ project = <<>>
    /\ builder = <<>>
    /\ added = <<>>
    /\ pc = "idle"
    /\ pos = [i |-> 1, j |-> 0]
    /\ trace = <<>>
    /\ lastOp = "none"
    /\ outcome = "none"
    /\ before = <<>>

\* ----------------------------------------------------------- accumulation

CallProjectNew ==
    /\ Chaining /\ project = <<>> /\ builder = <<>>
    /\ \E path \in RootPaths : project' = <<Project_new(path)>>
    /\ lastOp' = "Project::new" /\ outcome' = "none"
    /\ UNCHANGED <<fs, device, dir, builder, added, pc, pos, trace, before>>

CallGenericBuilderNew ==
    /\ Chaining /\ project = <<>> /\ builder = <<>>
    /\ \E path \in RootPaths : builder' = <<GenericBuilder_new(path)>>
    /\ lastOp' = "GenericBuilder::new" /\ outcome' = "none"
    /\ UNCHANGED <<fs, device, dir, project, added, pc, pos, trace, before>>

CallRustBuilderNew ==
    /\ Chaining /\ project = <<>> /\ builder = <<>>
    /\ \E path \in RootPaths : builder' = <<RustBuilder_new(path)>>
    /\ lastOp' = "RustBuilder::new" /\ outcome' = "none"
    /\ UNCHANGED <<fs, device, dir, project, added, pc, pos, trace, before>>

CallDirNew ==
    /\ Accumulating
    /\ Chaining /\ (project # <<>> \/ builder # <<>>)
    /\ DirsPassed < MaxDirs
    /\ \E path \in DirPaths : dir' = <<Dir_new(path)>>
    /\ lastOp' = "Dir::new" /\ outcome' = "none"
    /\ UNCHANGED <<fs, device, project, builder, added, pc, pos, trace, before>>

\* An add_file that creates its Dir on disk at once.
CallAddFileEager ==
    /\ Accumulating
    /\ pc = "idle" /\ dir # <<>>
    /\ TotalFiles < MaxFiles
    /\ \E a \in FileArgs :
          /\ dir' = <<add_file(dir[1], a.path, a.contents)>>
          /\ fs' = mkdir_p(fs, Resolve(dir[1].path)).fs
    /\ lastOp' = "Dir::add_file" /\ outcome' = "none"
    /\ UNCHANGED <<device, project, builder, added, pc, pos, trace, before>>

CallAddFile ==
    /\ Accumulating
    /\ pc = "idle" /\ dir # <<>>
    /\ TotalFiles < MaxFiles
    /\ \E a \in FileArgs : dir' = <<add_file(dir[1], a.path, a.contents)>>
    /\ lastOp' = "Dir::add_file" /\ outcome' = "none"
    /\ UNCHANGED <<fs, device, project, builder, added, pc, pos, trace, before>>

CallProjectAddDir ==
    /\ Accumulating
    /\ pc = "idle" /\ dir # <<>> /\ project # <<>>
    /\ project' = <<Project_add_dir(project[1], dir[1])>>
    /\ dir' = <<>>
    /\ lastOp' = "Project::add_dir" /\ outcome' = "none"
    /\ UNCHANGED <<fs, device, builder, added, pc, pos, trace, before>>

CallBuilderAddDir ==
    /\ Accumulating
    /\ pc = "idle" /\ dir # <<>> /\ builder # <<>>
    /\ builder' = <<Builder_add_dir(builder[1], dir[1])>>
    /\ added' = Append(added, dir[1])
    /\ dir' = <<>>
    /\ lastOp' = "Builder::add_dir" /\ outcome' = "none"
    /\ UNCHANGED <<fs, device, project, pc, pos, trace, before>>

\* Ok(self) goes on down the chain; on Err the builder is gone.
CallAddCargoToml ==
    /\ Accumulating
    /\ Chaining /\ builder # <<>> /\ builder[1].variant = "RustBuilder"
    /\ TotalFiles < MaxFiles
    /\ \E manifest \in Manifests :
          LET r == add_cargo_toml(builder[1], manifest)
          IN  /\ builder' = IF r.ok THEN <<r.self>> ELSE <<>>
              /\ outcome' = IF r.ok THEN "Ok" ELSE "Err(ser)"
    /\ lastOp' = "RustBuilder::add_cargo_toml"
    /\ UNCHANGED <<fs, device, dir, project, added, pc, pos, trace, before>>

CallEdition ==
    /\ Accumulating
    /\ Chaining /\ builder # <<>> /\ builder[1].variant = "RustBuilder"
    /\ \E e \in Editions : builder' = <<edition(builder[1], e)>>
    /\ lastOp' = "RustBuilder::edition" /\ outcome' = "none"
    /\ UNCHANGED <<fs, device, dir, project, added, pc, pos, trace, before>>

\* ------------------------------------------------------------------- build

\* The loops of Project::build, Builder::build and RustBuilder::build are
\* the same: for each Dir in order, mkdir_p its path, then create and write
\* each of its Files in order.  A position is the Dir (i) and the File
\* (j; 0 is the Dir's own mkdir_p) the loop is at.
FirstPos == [i |-> 1, j |-> 0]

StepAt(dirs, p) ==
    IF p.j = 0
    THEN [op |-> "mkdir_p", path |-> dirs[p.i].path, contents |-> <<>>]
    ELSE [op |-> "create", path |-> dirs[p.i].files[p.j].path,
          contents |-> dirs[p.i].files[p.j].contents]

NextPos(dirs, p) ==
    IF p.j < Len(dirs[p.i].files) THEN [i |-> p.i, j |-> p.j + 1]
    ELSE [i |-> p.i + 1, j |-> 0]

Finished(dirs, p) == p.i > Len(dirs)

\* One step against the filesystem.
PerformStep(f, step, dev) ==
    IF step.op = "mkdir_p" THEN mkdir_p(f, Resolve(step.path))
    ELSE create_write(f, Resolve(step.path), step.contents, dev)

\* A build that boxes its failure as the serializer's error.
on_failure_ser(entry) == "Err(ser)"

\* Every build unwrapping with expect.
on_failure_expect(entry) == "panic"

\* What a failed step does to the call: Project::build unwraps with expect,
\* the builders' build return the error with `?`.
on_failure(entry) == IF entry = "Project::build" THEN "panic" ELSE "Err(io)"

\* A loop that ignores the result of a step.
ContinuesAlways(ok) == TRUE

\* Whether the loop goes on after a step.
Continues(ok) == ok

\* What a build() is called on: the filesystem as the build() just before it
\* left it, when that one succeeded and nothing was called in between.
StartedOn ==
    IF lastOp \in BuildCalls /\ outcome = "Ok" THEN <<fs>> ELSE <<>>

CallProjectBuild ==
    /\ Chaining /\ project # <<>> /\ lastOp # "Project::clear"
    /\ pc' = "building" /\ pos' = FirstPos /\ trace' = <<>>
    /\ lastOp' = "Project::build" /\ outcome' = "none"
    /\ UNCHANGED <<fs, device, dir, project, builder, added>>
    /\ before' = StartedOn

CallBuilderBuild ==
    /\ Chaining /\ builder # <<>> /\ builder[1].variant = "GenericBuilder"
    /\ pc' = "building" /\ pos' = FirstPos /\ trace' = <<>>
    /\ lastOp' = "Builder::build" /\ outcome' = "none"
    /\ UNCHANGED <<fs, device, dir, project, builder, added>>
    /\ before' = StartedOn

CallRustBuilderBuild ==
    /\ Chaining /\ builder # <<>> /\ builder[1].variant = "RustBuilder"
    /\ pc' = "building" /\ pos' = FirstPos /\ trace' = <<>>
    /\ lastOp' = "RustBuilder::build" /\ outcome' = "none"
    /\ UNCHANGED <<fs, device, dir, project, builder, added>>
    /\ before' = StartedOn

\* The call is over: Project::build gives self back, a builder's build
\* gives Ok(self.project()); on a failure the caller is left with the
\* project of its own copy of the value.
Return(result) ==
    /\ pc' = "idle" /\ pos' = FirstPos
    /\ outcome' = result
    /\ IF builder # <<>>
       THEN project' = <<Builder_project(builder[1])>> /\ builder' = <<>>
       ELSE UNCHANGED <<project, builder>>

BuildStep ==
    /\ pc = "building"
    /\ LET dirs == HeldDirs
           step == StepAt(dirs, pos)
           r    == PerformStep(fs, step, device)
           next == NextPos(dirs, pos)
       IN  /\ fs' = r.fs
           /\ trace' = Append(trace, [op |-> step.op, path |-> step.path, ok |-> r.ok])
           /\ IF ~Continues(r.ok) THEN Return(on_failure(lastOp))
              ELSE IF Finished(dirs, next) THEN Return("Ok")
              ELSE pos' = next /\ UNCHANGED <<project, builder, pc, outcome>>
    /\ UNCHANGED <<device, dir, added, lastOp, before>>

\* ------------------------------------------------------------------- clear

\* A clear that removes the path of every Dir of the project.
clear_every_dir(f, self) ==
    IF ~IsDir(f, Resolve(self.dirs[1].path)) THEN [ok |-> FALSE, fs |-> f]
    ELSE [ok |-> TRUE,
          fs |-> [m \in { x \in DOMAIN f :
                            \A k \in 1..Len(self.dirs) :
                               ~Within(x, Resolve(self.dirs[k].path)) } |-> f[m]]]

\* A clear with std::fs::remove_dir, which refuses a directory that is not
\* empty.
clear_remove_dir(f, self) ==
    LET n == Resolve(self.dirs[1].path)
    IN  IF IsDir(f, n) /\ \A m \in DOMAIN f : Within(m, n) => m = n
        THEN [ok |-> TRUE, fs |-> [m \in DOMAIN f \ {n} |-> f[m]]]
        ELSE [ok |-> FALSE, fs |-> f]

\* Project::clear: remove_dir_all(&self.dirs[0].path).expect(..)
clear(f, self) == remove_dir_all(f, Resolve(self.dirs[1].path))

\* A clear that drops the result of remove_dir_all.
CallClearIgnoring ==
    /\ Chaining /\ project # <<>>
    /\ fs' = clear(fs, project[1]).fs /\ outcome' = "Ok"
    /\ lastOp' = "Project::clear"
    /\ UNCHANGED <<device, dir, project, builder, added, pc, pos, trace>>
    /\ before' = <<>>

CallClear ==
    /\ Chaining /\ project # <<>>
    /\ LET r == clear(fs, project[1])
       IN  fs' = r.fs /\ outcome' = IF r.ok THEN "Ok" ELSE "panic"
    /\ lastOp' = "Project::clear"
    /\ UNCHANGED <<device, dir, project, builder, added, pc, pos, trace>>
    /\ before' = <<>>

\* ----------------------------------------------------------- specification

Next ==
    \/ CallProjectNew
    \/ CallGenericBuilderNew
    \/ CallRustBuilderNew
    \/ CallDirNew
    \/ CallAddFile
    \/ CallProjectAddDir
    \/ CallBuilderAddDir
    \/ CallAddCargoToml
    \/ CallEdition
    \/ CallProjectBuild
    \/ CallBuilderBuild
    \/ CallRustBuilderBuild
    \/ BuildStep
    \/ CallClear

Spec == Init /\ [][Next]_vars

\* ---------------------------------------------------------------- mkdir_p

\* The calls of mkdir_p made in a row on one filesystem.
MaxCalls == 3

\* The paths mkdir_p is called on: the project root, a directory beneath
\* it, and paths whose ancestors are missing.
MkdirPaths ==
    { Rel(<<"tmp">>), Rel(<<"tmp", "foo">>), Rel(<<"out">>),
      Rel(<<"out", "a", "b">>), Abs(<<"x", "y">>) }

\* The filesystem before the calls: the project root is free, or taken by a
\* plain file.
MkdirInit ==
    /\ fs \in { CleanDisk, TakenDisk } /\ device = "ok"
    /\ dir = <<>>
    /\ project = <<>>
    /\ builder = <<>>
    /\ added = <<>>
    /\ pc = "idle"
    /\ pos = FirstPos
    /\ trace = <<>>
    /\ lastOp = "none"
    /\ outcome = "none"
    /\ before = <<>>

\* path.mkdir_p(): Ok(()) or the I/O error of create_dir_all.
CallMkdirP ==
    /\ Len(trace) < MaxCalls
    /\ \E path \in MkdirPaths :
          LET r == mkdir_p(fs, Resolve(path))
          IN  /\ fs' = r.fs
              /\ outcome' = IF r.ok THEN "Ok" ELSE "Err(io)"
              /\ trace' = Append(trace, [op |-> "mkdir_p", path |-> path,
                                         ok |-> r.ok])
    /\ lastOp' = "FilePath::mkdir_p"
    /\ UNCHANGED <<device, dir, project, builder, added, pc, pos, before>>

MkdirNext == CallMkdirP

MkdirSpec == MkdirInit /\ [][MkdirNext]_vars

\* ------------------------------------------------------------------ claims

\* The last build() has returned, with success or with a failure.
Built == pc = "idle" /\ lastOp \in BuildCalls

BuiltOk == Built /\ outcome = "Ok"

BuildFailed == Built /\ outcome \in { "Err(io)", "panic" }

\* The location of the held project's root, dirs[0].path.
RootOf(p) == Resolve(p.dirs[1].path)

\* The Files of a project, in dirs order and then insertion order.
RECURSIVE AllFiles(_)
AllFiles(dirs) ==
    IF dirs = <<>> THEN <<>> ELSE dirs[1].files \o AllFiles(Tail(dirs))

\* The bytes of the last File, in that order, whose path names location n.
LastSupplied(dirs, n) ==
    LET files == AllFiles(dirs)
        k == CHOOSE i \in 1..Len(files) :
                /\ Resolve(files[i].path) = n
                /\ \A j \in (i + 1)..Len(files) : Resolve(files[j].path) # n
    IN  files[k].contents

\* The steps of a materialization, in order: per Dir, its mkdir_p and then
\* one create per File.
RECURSIVE StepsOf(_)
StepsOf(dirs) ==
    IF dirs = <<>> THEN <<>>
    ELSE <<[op |-> "mkdir_p", path |-> dirs[1].path]>>
            \o [k \in 1..Len(dirs[1].files) |->
                    [op |-> "create", path |-> dirs[1].files[k].path]]
            \o StepsOf(Tail(dirs))

\* C1: for both builder variants add_dir(dir) appends dir to the builder's
\* project dirs, so that the project holds the root Dir followed by every
\* added Dir in call order, and a following successful build() creates each
\* added Dir's path and its Files.
C1_BuilderAddDirAppends ==
    /\ builder # <<>> =>
          /\ Builder_project(builder[1]).dirs[1].path = builder[1].path
          /\ Tail(Builder_project(builder[1]).dirs) = added
    /\ (BuiltOk /\ lastOp # "Project::build") =>
          \A k \in 1..Len(added) :
             /\ IsDir(fs, Resolve(added[k].path))
             /\ \A j \in 1..Len(added[k].files) :
                   IsFile(fs, Resolve(added[k].files[j].path))

\* C1, the case reached: a builder's build() has succeeded after add_dir,
\* and an added Dir is not on disk.
C1_DirDroppedWitness ==
    /\ BuiltOk /\ lastOp = "Builder::build"
    /\ added # <<>>
    /\ \E k \in 1..Len(added) : ~Exists(fs, Resolve(added[k].path))

\* C2, as claimed: for a Project made of the root Dir and Dirs added with
\* add_dir, after a successful build() every Dir path is a directory and
\* every File path is a regular file holding exactly the bytes supplied for
\* that File.
C2_EveryFileHoldsItsOwnBytes ==
    (BuiltOk /\ project[1].dirs[1].files = <<>>) =>
       \A i \in 1..Len(project[1].dirs) :
          /\ IsDir(fs, Resolve(project[1].dirs[i].path))
          /\ \A j \in 1..Len(project[1].dirs[i].files) :
                LET file == project[1].dirs[i].files[j]
                IN  /\ IsFile(fs, Resolve(file.path))
                    /\ fs[Resolve(file.path)].contents = file.contents

\* C2, amended: after a successful build() every Dir path is a directory and
\* every File path is a regular file holding the bytes of the last File, in
\* materialization order, that names that location.
C2_BuildMaterializes ==
    BuiltOk =>
       \A i \in 1..Len(project[1].dirs) :
          /\ IsDir(fs, Resolve(project[1].dirs[i].path))
          /\ \A j \in 1..Len(project[1].dirs[i].files) :
                LET n == Resolve(project[1].dirs[i].files[j].path)
                IN  /\ IsFile(fs, n)
                    /\ fs[n].contents = LastSupplied(project[1].dirs, n)

\* C2, the case reached: a build() has succeeded on a project with two Files
\* at one location and different bytes.
C2_Witness ==
    /\ BuiltOk /\ lastOp = "Project::build"
    /\ project[1].dirs[1].files = <<>>
    /\ \E a, b \in 1..Len(AllFiles(project[1].dirs)) :
          LET files == AllFiles(project[1].dirs)
          IN  /\ a < b
              /\ Resolve(files[a].path) = Resolve(files[b].path)
              /\ files[a].contents # files[b].contents

\* C3, as claimed: no build entry point panics on a materialization failure.
C3_NoBuildPanics == lastOp \in BuildCalls => outcome # "panic"

\* C3, amended: Builder::build (GenericBuilder) and RustBuilder::build never
\* panic on a materialization failure and return it as an I/O error;
\* Project::build panics on it.
C3_BuilderBuildsReturnErr ==
    /\ lastOp \in BuildCalls \ { "Project::build" } => outcome # "panic"
    /\ (Built /\ trace # <<>> /\ ~trace[Len(trace)].ok) =>
          outcome = IF lastOp = "Project::build" THEN "panic" ELSE "Err(io)"
    /\ (Built /\ outcome \in { "panic", "Err(io)" }) => ~trace[Len(trace)].ok

\* C3, the case reached: a builder's build() has hit a root path taken by a
\* plain file and returned an error.
C3_Witness ==
    /\ Built /\ lastOp \in { "Builder::build", "RustBuilder::build" }
    /\ outcome = "Err(io)"
    /\ IsFile(fs, RootOf(project[1]))

\* C4: materialization is strictly ordered, fail-fast and not transactional:
\* the steps performed are the first steps of the ordered list, only the
\* last one performed may have failed, build() succeeds exactly when all
\* were performed and none failed, and what the steps before a failed one
\* produced is on disk.
C4_OrderedFailFast ==
    lastOp \in BuildCalls =>
       LET steps == StepsOf(HeldDirs)
       IN  /\ Len(trace) <= Len(steps)
           /\ \A k \in 1..Len(trace) :
                 /\ trace[k].op = steps[k].op
                 /\ trace[k].path = steps[k].path
                 /\ k < Len(trace) => trace[k].ok
                 /\ trace[k].ok =>
                       IF trace[k].op = "mkdir_p"
                       THEN IsDir(fs, Resolve(trace[k].path))
                       ELSE IsFile(fs, Resolve(trace[k].path))
           /\ pc = "building" => (Len(trace) < Len(steps) /\ outcome = "none")
           /\ BuiltOk <=> (pc = "idle" /\ Len(trace) = Len(steps)
                             /\ trace[Len(trace)].ok)
           /\ BuildFailed <=> (pc = "idle" /\ ~trace[Len(trace)].ok)

\* C4, the case reached: a build() has failed after at least two steps that
\* succeeded and before the last step of the project.
C4_Witness ==
    /\ BuildFailed
    /\ Len(trace) >= 3
    /\ Len(trace) < Len(StepsOf(HeldDirs))
    /\ IsDir(fs, Resolve(trace[2].path))

\* C5, as claimed: whenever build() fails, the root directory exists on disk.
C5_RootExistsAfterAnyFailure ==
    BuildFailed => IsDir(fs, RootOf(project[1]))

\* C5, amended: when build() fails at a step after the first, the root
\* directory exists and a clear() that follows succeeds; when it fails at
\* its first step, the root's own mkdir_p, the root is no directory and a
\* clear() that follows panics.
C5_RootExistsAfterLaterFailure ==
    /\ [](BuildFailed => (IsDir(fs, RootOf(project[1])) <=> Len(trace) >= 2))
    /\ [][(BuildFailed /\ lastOp' = "Project::clear") =>
             (outcome' = "Ok" <=> Len(trace) >= 2)]_vars

\* C5, the case reached: clear() has succeeded on a project whose build()
\* failed after its first step, leaving entries beneath the root.
C5_Witness ==
    /\ lastOp = "Project::clear" /\ outcome = "Ok"
    /\ Len(trace) >= 3 /\ ~trace[Len(trace)].ok

\* C6: after clear() has returned, the root path and everything beneath it
\* no longer exist.
C6_ClearRemovesTree ==
    (lastOp = "Project::clear" /\ outcome = "Ok") =>
       \A n \in DOMAIN fs : ~Within(n, RootOf(project[1]))

\* C6, the case reached: clear() has returned on a project whose build()
\* had created a directory and a file beneath the root.
C6_Witness ==
    /\ lastOp = "Project::clear" /\ outcome = "Ok"
    /\ trace # <<>> /\ trace[Len(trace)].ok
    /\ \E k \in 1..Len(trace) :
          /\ trace[k].op = "create"
          /\ Within(Resolve(trace[k].path), RootOf(project[1]))
          /\ Len(Resolve(trace[k].path)) > Len(RootOf(project[1])) + 1

\* C7: root invariant: the dirs of a Project, held directly or by a builder,
\* are never empty, and dirs[0].path is the path given to new.
C7_RootInvariant ==
    /\ project # <<>> =>
          /\ Len(project[1].dirs) >= 1
          /\ project[1].dirs[1].path = project[1].path
          /\ project[1].path \in RootPaths
    /\ builder # <<>> =>
          /\ Len(builder[1].project.dirs) >= 1
          /\ builder[1].project.dirs[1].path = builder[1].path
          /\ builder[1].project.path = builder[1].path
          /\ builder[1].path \in RootPaths

\* C7, the case reached: a project with two added Dirs has been built.
C7_Witness ==
    /\ BuiltOk /\ lastOp = "Project::build"
    /\ Len(project[1].dirs) = 3
    /\ project[1].dirs[2].path # project[1].path

\* C8: only build() and clear() touch the filesystem: every other call
\* leaves it unchanged, build() removes no entry, and clear() creates and
\* changes none.
C8_OnlyBuildAndClearTouchDisk ==
    [][/\ lastOp' \notin BuildCalls \cup { "Project::clear" } => fs' = fs
       /\ lastOp' \in BuildCalls => DOMAIN fs \subseteq DOMAIN fs'
       /\ lastOp' = "Project::clear" =>
             /\ DOMAIN fs' \subseteq DOMAIN fs
             /\ \A n \in DOMAIN fs' : fs'[n] = fs[n]]_vars

\* C8, the case reached: Files have been added and a manifest attached, and
\* the disk is as it was at the start.
C8_Witness ==
    /\ lastOp = "RustBuilder::add_cargo_toml" /\ outcome = "Ok"
    /\ CountFiles(added) >= 1
    /\ fs = CleanDisk

\* C9: a successful add_cargo_toml(manifest) appends exactly one File to the
\* root Dir, at <root>/Cargo.toml and holding the serialized manifest, and
\* leaves the other Dirs and the Files already there unchanged; after a
\* following successful build() the root and <root>/Cargo.toml are on disk.
C9_AddCargoTomlAppends ==
    /\ [][(lastOp' = "RustBuilder::add_cargo_toml" /\ outcome' = "Ok") =>
             /\ builder' # <<>>
             /\ builder'[1].project.path = builder[1].project.path
             /\ builder'[1].project.dirs =
                   [builder[1].project.dirs EXCEPT ![1].files =
                       Append(@, [path |-> join(builder[1].project.dirs[1].path,
                                                Rel(<<"Cargo.toml">>)),
                                  contents |-> toml_to_string(builder'[1].manifest)])]
             /\ builder'[1].manifest \in Manifests]_vars
    /\ [](BuiltOk /\ lastOp = "RustBuilder::build" =>
             /\ IsDir(fs, RootOf(project[1]))
             /\ \A j \in 1..Len(project[1].dirs[1].files) :
                   /\ project[1].dirs[1].files[j].path
                         = join(project[1].path, Rel(<<"Cargo.toml">>))
                   /\ IsFile(fs, RootOf(project[1]) \o <<"Cargo.toml">>))

\* C9, the case reached: a project with an attached manifest has been built
\* and its Cargo.toml is on disk.
C9_Witness ==
    /\ BuiltOk /\ lastOp = "RustBuilder::build"
    /\ Len(project[1].dirs[1].files) >= 1
    /\ IsFile(fs, RootOf(project[1]) \o <<"Cargo.toml">>)

\* C10: edition(e) called before the manifest is attached overrides the
\* edition that is serialized: the Cargo.toml File attached by the
\* add_cargo_toml(m) that follows edition(e) holds m with edition e.
C10_EditionOverrides ==
    [][(lastOp = "RustBuilder::edition"
          /\ lastOp' = "RustBuilder::add_cargo_toml" /\ outcome' = "Ok") =>
          LET files == builder'[1].project.dirs[1].files
          IN  files[Len(files)].contents =
                 toml_to_string([builder'[1].manifest EXCEPT
                    !.package.edition = builder[1].manifest.package.edition])]_vars

\* The operations that have no failing path.
Infallible ==
    { "Project::new", "Dir::new", "Dir::add_file", "Project::add_dir",
      "Builder::add_dir", "RustBuilder::edition", "GenericBuilder::new",
      "RustBuilder::new" }

\* C11: failures are confined by operation and kind.  The constructors,
\* add_file, add_dir and edition never fail; a build() fails only on a
\* filesystem step (mkdir_p, create or write) and never with a serialization
\* error, since the manifest is encoded when add_cargo_toml attaches it and
\* not in build(); add_cargo_toml fails only with a serialization error; and
\* clear() fails only by a panic.
C11_FailuresConfined ==
    /\ lastOp \in Infallible => outcome = "none"
    /\ lastOp \in BuildCalls =>
          /\ outcome \in { "none", "Ok", "Err(io)", "panic" }
          /\ outcome = "none" <=> pc = "building"
          /\ \A k \in 1..Len(trace) : trace[k].op \in { "mkdir_p", "create" }
          /\ outcome \in { "Err(io)", "panic" } =>
                (trace # <<>> /\ ~trace[Len(trace)].ok)
    /\ lastOp = "RustBuilder::add_cargo_toml" =>
          /\ outcome \in { "Ok", "Err(ser)" }
          /\ outcome = "Err(ser)" => builder = <<>>
          /\ outcome = "Ok" =>
                LET files == Builder_project(builder[1]).dirs[1].files
                IN  files[Len(files)].contents
                       = toml_to_string(builder[1].manifest)
    /\ lastOp = "Project::clear" => outcome \in { "Ok", "panic" }

\* C11, the case reached: a RustBuilder's build() with a manifest attached
\* has failed, on writing a file, with an I/O error.
C11_Witness ==
    /\ Built /\ lastOp = "RustBuilder::build" /\ outcome = "Err(io)"
    /\ project[1].dirs[1].files # <<>>
    /\ trace[Len(trace)].op = "create"

\* Path::starts_with: path has base as a prefix, component by component.
starts_with(path, base) ==
    /\ path.abs = base.abs
    /\ Len(base.comps) <= Len(path.comps)
    /\ SubSeq(path.comps, 1, Len(base.comps)) = base.comps

\* Every Dir value there is: the one being filled, those passed to a
\* builder's add_dir, and those of the held project.
EveryDir ==
    { dir[k] : k \in 1..Len(dir) }
       \cup { added[k] : k \in 1..Len(added) }
       \cup { HeldDirs[k] : k \in 1..Len(HeldDirs) }

\* C12, as claimed: in every Dir made with Dir::new and add_file, every
\* File's stored path is the Dir's path or lies inside it.
C12_FilesInsideDir ==
    \A d \in EveryDir : \A k \in 1..Len(d.files) :
       Within(Resolve(d.files[k].path), Resolve(d.path))

\* C12, amended: in every Dir, every File added with a relative path is
\* stored at a path that starts with the Dir's path; a File added with an
\* absolute path is stored at that path as given, wherever it lies.
C12_RelativeFilesInsideDir ==
    \A d \in EveryDir : \A k \in 1..Len(d.files) :
       \/ /\ starts_with(d.files[k].path, d.path)
          /\ Within(Resolve(d.files[k].path), Resolve(d.path))
       \/ \E a \in FileArgs :
             ~is_relative(a.path) /\ d.files[k].path = a.path

\* C12, the case reached: a Dir holds a File added with a relative path,
\* stored inside it, and a File added with an absolute path, stored outside.
C12_Witness ==
    /\ dir # <<>> /\ Len(dir[1].files) = 2
    /\ \E k \in 1..2 : starts_with(dir[1].files[k].path, dir[1].path)
    /\ \E k \in 1..2 :
          /\ ~is_relative(dir[1].files[k].path)
          /\ ~Within(Resolve(dir[1].files[k].path), Resolve(dir[1].path))

\* C13: Dir::add_file(path, contents) appends exactly one File at the end
\* of the Dir's files and keeps the Dir's path and the earlier Files as they
\* were; the File's path is the Dir's path followed by `path` when `path` is
\* relative and `path` itself when it is absolute, and its contents are the
\* bytes supplied.
C13_AddFileAppendsOne ==
    [][lastOp' = "Dir::add_file" =>
          \E a \in FileArgs :
             LET old == dir[1]
                 new == dir'[1]
                 file == new.files[Len(new.files)]
             IN  /\ new.path = old.path
                 /\ Len(new.files) = Len(old.files) + 1
                 /\ SubSeq(new.files, 1, Len(old.files)) = old.files
                 /\ file.contents = a.contents
                 /\ file.path =
                       IF a.path.abs THEN a.path
                       ELSE [abs |-> old.path.abs,
                             comps |-> old.path.comps \o a.path.comps]]_vars

\* C13, the case reached: add_file has just added a second File, with a
\* relative path, to a Dir below the root whose first File has an absolute
\* path.
C13_Witness ==
    /\ lastOp = "Dir::add_file" /\ dir # <<>>
    /\ dir[1].path = Rel(<<"tmp", "foo">>)
    /\ Len(dir[1].files) = 2
    /\ dir[1].files[1].path.abs
    /\ dir[1].files[2] = [path |-> Rel(<<"tmp", "foo", "foo">>),
                          contents |-> <<102>>]

\* C14: clear() panics whenever dirs[0].path cannot be removed, as when the
\* root is not there because the project was never built or a copy of it
\* was cleared before, and leaves the filesystem as it was; it never returns
\* normally with the root still in place.
C14_ClearPanicsOrRemoves ==
    [][lastOp' = "Project::clear" =>
          LET root == RootOf(project[1])
          IN  /\ outcome' \in { "Ok", "panic" }
              /\ ~IsDir(fs, root) => (outcome' = "panic" /\ fs' = fs)
              /\ outcome' = "Ok" => ~Exists(fs', root)]_vars

\* C14, the case reached: clear() has panicked on a project whose build()
\* had succeeded and whose root an earlier clear() had removed.
C14_Witness ==
    /\ lastOp = "Project::clear" /\ outcome = "panic"
    /\ Len(trace) = Len(StepsOf(project[1].dirs))
    /\ trace[Len(trace)].ok
    /\ ~Exists(fs, RootOf(project[1]))

\* The location n and its ancestors, from the filesystem root down.
Ancestry(n) == { SubSeq(n, 1, k) : k \in 0..Len(n) }

\* C15: mkdir_p succeeds exactly when no component of the path exists as a
\* non-directory and fails, changing nothing, otherwise; when it succeeds the
\* path and every ancestor are directories, what existed before is as it
\* was and nothing else is created; and it is idempotent: called again on
\* the path of a call that succeeded, it succeeds and leaves the filesystem
\* as that call left it.
C15_MkdirPIdempotent ==
    [][lastOp' = "FilePath::mkdir_p" =>
          LET call == trace'[Len(trace')]
              n == Resolve(call.path)
          IN  /\ call.ok <=> \A m \in Ancestry(n) : ~IsFile(fs, m)
              /\ ~call.ok => (outcome' = "Err(io)" /\ fs' = fs)
              /\ call.ok =>
                    /\ outcome' = "Ok"
                    /\ \A m \in Ancestry(n) : IsDir(fs', m)
                    /\ DOMAIN fs' = DOMAIN fs \cup Ancestry(n)
                    /\ \A m \in DOMAIN fs : fs'[m] = fs[m]
              /\ (trace # <<>> /\ trace[Len(trace)].ok
                     /\ trace[Len(trace)].path = call.path) =>
                    (call.ok /\ fs' = fs)]_vars

\* C15, the case reached: mkdir_p has succeeded twice in a row on a path of
\* which neither the parent nor the grandparent existed before.
C15_Witness ==
    /\ lastOp = "FilePath::mkdir_p" /\ outcome = "Ok"
    /\ Len(trace) = 2
    /\ trace[1].ok /\ trace[2].ok
    /\ trace[1].path = Rel(<<"out", "a", "b">>)
    /\ trace[2].path = trace[1].path
    /\ IsDir(fs, Cwd \o <<"out", "a">>)

\* bytes holds sub as a run of consecutive bytes.
Contains(bytes, sub) ==
    \E k \in 1..(Len(bytes) - Len(sub) + 1) :
       SubSeq(bytes, k, k + Len(sub) - 1) = sub

\* The line `edition = "2015"` of a Cargo.toml, and the line for 2018.
EditionLine2015 ==
    <<101, 100, 105, 116, 105, 111, 110, 32, 61, 32, 34, 50, 48, 49, 53, 34, 10>>

EditionLine2018 ==
    <<101, 100, 105, 116, 105, 111, 110, 32, 61, 32, 34, 50, 48, 49, 56, 34, 10>>

\* C16: the manifest defaults.  Config::default() has an empty name,
\* version 0.0.0, no authors and edition 2018 (it is what RustBuilder::new
\* starts from); an edition of None given to Config::try_from or
\* Manifest::try_from becomes Edition2018 and any other edition is kept; and
\* the two editions are written to Cargo.toml as exactly "2015" and "2018".
C16_ManifestDefaults ==
    /\ \A e \in Editions \cup { NoEdition } :
          LET expected == IF e = NoEdition THEN "Edition2018" ELSE e
          IN  /\ Config_try_from("foo", Version(0, 1, 0), <<>>, e).edition
                    = expected
              /\ Manifest_try_from("foo", Version(0, 1, 0), <<>>, e,
                                   NoDependencies).package.edition = expected
    /\ lastOp = "RustBuilder::new" =>
          /\ builder[1].manifest.package =
                [name |-> "",
                 version |-> [major |-> 0, minor |-> 0, patch |-> 0],
                 authors |-> <<>>,
                 edition |-> "Edition2018"]
          /\ ~builder[1].manifest.dependencies.some
    /\ (lastOp = "RustBuilder::add_cargo_toml" /\ outcome = "Ok") =>
          LET manifest == builder[1].manifest
              files == Builder_project(builder[1]).dirs[1].files
              bytes == files[Len(files)].contents
          IN  /\ manifest.package.edition \in Editions
              \* the manifest of Manifests made with no edition is the one
              \* with dependencies
              /\ manifest.dependencies.some =>
                    manifest.package.edition = "Edition2018"
              /\ Contains(bytes, EditionLine2015)
                    <=> manifest.package.edition = "Edition2015"
              /\ Contains(bytes, EditionLine2018)
                    <=> manifest.package.edition = "Edition2018"

\* C16, the case reached: a manifest made with no edition has been attached
\* and its Cargo.toml says edition = "2018".
C16_Witness ==
    /\ lastOp = "RustBuilder::add_cargo_toml" /\ outcome = "Ok"
    /\ builder[1].manifest.dependencies.some
    /\ LET files == Builder_project(builder[1]).dirs[1].files
       IN  Contains(files[Len(files)].contents, EditionLine2018)

\* C17: edition(e) called after add_cargo_toml has no effect on the manifest
\* attached: the call changes only the edition of the builder's manifest
\* and leaves the project's dirs, with the Cargo.toml bytes in them, and
\* the filesystem as they were, so that every Cargo.toml File a build()
\* writes holds a manifest as it was given to add_cargo_toml.
C17_EditionLeavesAttached ==
    /\ [][lastOp' = "RustBuilder::edition" =>
             /\ builder'[1].manifest.package.edition \in Editions
             /\ builder'[1] =
                   [builder[1] EXCEPT !.manifest.package.edition =
                       builder'[1].manifest.package.edition]
             /\ Builder_project(builder'[1]).dirs
                   = Builder_project(builder[1]).dirs
             /\ fs' = fs]_vars
    /\ [](\A k \in 1..Len(HeldDirs) : \A j \in 1..Len(HeldDirs[k].files) :
             HeldDirs[k].files[j].path.comps
                   = HeldDirs[1].path.comps \o <<"Cargo.toml">> =>
                \E m \in Manifests :
                   HeldDirs[k].files[j].contents = toml_to_string(m))

\* C17, the case reached: edition(e) has been called after add_cargo_toml
\* with an edition other than the one in the Cargo.toml File attached.
C17_Witness ==
    /\ lastOp = "RustBuilder::edition"
    /\ LET files == Builder_project(builder[1]).dirs[1].files
       IN  /\ files # <<>>
           /\ files[Len(files)].contents # toml_to_string(builder[1].manifest)
           /\ \E e \in Editions :
                 files[Len(files)].contents =
                    toml_to_string([builder[1].manifest EXCEPT
                                       !.package.edition = e])

\* File j2 of Dir i2 is materialized after File j of Dir i.
Later(i, j, i2, j2) == i2 > i \/ (i2 = i /\ j2 > j)

\* C18: when two Files resolve to the same path, by two add_file calls on
\* one Dir, by the same path in two Dirs or by two add_cargo_toml calls, a
\* successful build() leaves at that path the bytes of the File that comes
\* last in materialization order: an earlier File's bytes are there only if
\* they are the last File's bytes too.
C18_LastFileWins ==
    BuiltOk =>
       LET dirs == project[1].dirs
       IN  \A i, i2 \in 1..Len(dirs) :
             \A j \in 1..Len(dirs[i].files), j2 \in 1..Len(dirs[i2].files) :
                LET first == dirs[i].files[j]
                    second == dirs[i2].files[j2]
                    n == Resolve(second.path)
                IN  (/\ Resolve(first.path) = n
                     /\ Later(i, j, i2, j2)
                     /\ \A i3 \in 1..Len(dirs) : \A j3 \in 1..Len(dirs[i3].files) :
                           Later(i2, j2, i3, j3) =>
                              Resolve(dirs[i3].files[j3].path) # n)
                    => (IsFile(fs, n) /\ fs[n].contents = second.contents)

\* C18, the case reached: a RustBuilder's build() has succeeded after two
\* add_cargo_toml calls with different manifests, and Cargo.toml holds the
\* second manifest.
C18_Witness ==
    /\ BuiltOk /\ lastOp = "RustBuilder::build"
    /\ LET files == project[1].dirs[1].files
       IN  /\ Len(files) = 2
           /\ files[1].path = files[2].path
           /\ files[1].contents # files[2].contents
           /\ fs[Resolve(files[2].path)].contents = files[2].contents

\* C19: build() is repeatable: a build() called on a project right after a
\* build() of it that succeeded, with nothing else touching the filesystem
\* in between, succeeds and leaves the filesystem exactly as the first
\* build() left it.
C19_BuildRepeatable ==
    (Built /\ before # <<>>) => (outcome = "Ok" /\ fs = before[1])

\* C19, the case reached: a second build() has returned on a project with
\* two Dirs beside the root and two Files at one location with different
\* bytes, which the second build() has written one after the other again.
C19_Witness ==
    /\ Built /\ before # <<>>
    /\ Len(project[1].dirs) = 3
    /\ LET files == AllFiles(project[1].dirs)
       IN  /\ Len(files) = 2
           /\ Resolve(files[1].path) = Resolve(files[2].path)
           /\ files[1].contents # files[2].contents
    /\ Len(trace) = 5

\* C20: clear() removes only dirs[0].path and what lies beneath it: every
\* entry outside the root is left as it was and no entry appears, so the
\* directories and files a build() created outside the root (a Dir whose
\* path is not under the root, a File with an absolute path elsewhere) are
\* still there after the teardown.
C20_ClearLeavesOutside ==
    /\ [][lastOp' = "Project::clear" =>
             /\ DOMAIN fs' \subseteq DOMAIN fs
             /\ \A n \in DOMAIN fs :
                   ~Within(n, RootOf(project[1])) =>
                      (n \in DOMAIN fs' /\ fs'[n] = fs[n])]_vars
    /\ []((lastOp = "Project::clear" /\ outcome = "Ok") =>
             \A k \in 1..Len(trace) :
                LET n == Resolve(trace[k].path)
                IN  (trace[k].ok /\ ~Within(n, RootOf(project[1]))) =>
                       IF trace[k].op = "mkdir_p" THEN IsDir(fs, n)
                       ELSE IsFile(fs, n))

\* C20, the case reached: clear() has returned on a project whose build()
\* had created a directory beside the root and a file at an absolute path
\* outside it, and both are still there while the root is gone.
C20_Witness ==
    /\ lastOp = "Project::clear" /\ outcome = "Ok"
    /\ \E k \in 1..Len(trace) :
          trace[k].op = "mkdir_p" /\ trace[k].path = Rel(<<"out">>)
    /\ \E k \in 1..Len(trace) :
          trace[k].op = "create" /\ trace[k].path = Abs(<<"x">>) /\ trace[k].ok
    /\ IsDir(fs, Cwd \o <<"out">>)
    /\ IsFile(fs, <<"x">>)
    /\ ~Exists(fs, RootOf(project[1]))

====
